---- MODULE Spec2Model ----
(***************************************************************************)
(* LunaRTOS kernel core: KernelInit, KernelCreateThreads, KernelStackInit  *)
(* and KernelLaunch of drivers/Src/kernel.c, driven by main() of main.c,   *)
(* on a Cortex-M4 register file and stack memory.                          *)
(*                                                                         *)
(* The repository has no tick handler, no switch exception handler and no  *)
(* ThreadYield body (kernel.h only declares ThreadYield, main.c calls it). *)
(* Those three are modelled from sections 4.4-4.6 of the specification.    *)
(***************************************************************************)
EXTENDS Integers, Sequences, FiniteSets, TLC

----------------------------------------------------------------------------
(* Program constants *)

SYS_CLOCK == 16000000

NUM_THREADS == 3

MAX_STACK_SIZE == 100

QUANTA == 10

\* 0xAAAAAAAA, the pattern KernelStackInit stores in the register slots, as
\* the int32_t the stack words are: 0xAAAAAAAA - 2^32
SENTINEL == -1431655766

\* (1U << 24), the Thumb bit of the saved status word
THUMB_BIT == 16777216

\* priority passed to NVIC_SetPriority(SysTick_IRQn, ...)
SYSTICK_PRIORITY == 15

\* the lowest (least urgent) level of the 4-bit priority field
LOWEST_PRIORITY == 15

NULL == 0

\* code addresses of the functions (values chosen by the linker; only their
\* being distinct and non-null matters)
ADDR_main == 256

ADDR_KernelInit == 512

ADDR_KernelCreateThreads == 768

ADDR_KernelLaunch == 1024

task0 == 1280

task1 == 1536

task2 == 1792

----------------------------------------------------------------------------
(* Bounds of the model *)

\* values a task body may leave in a register are 1..MaxVal
MaxVal == 1

\* API calls a caller makes after main's three (SpecAPI only)
MaxExtraCalls == 1

\* length up to which the order of activations is recorded
MaxRun == 3

\* words of the main (MSP) stack below the caller's stack pointer
MainStackWords == 20

\* the SysTick current-value register is unknown at reset: 0..MaxCount
MaxCount == 1

----------------------------------------------------------------------------

Threads == 0..(NUM_THREADS - 1)

\* region number of the main stack; regions 0..NUM_THREADS-1 are TCB_STACK[i]
MainRegion == NUM_THREADS

NoThread == -1

NullPtr == <<NoThread, 0>>

\* the RELOAD field of SysTick->LOAD is 24 bits wide
RELOAD_MODULUS == 16777216

TaskAddr == <<task0, task1, task2>>

\* registers pushed by software (R4-R11, lowest address first) followed by
\* the registers the processor pushes on exception entry (R0-R3, R12, LR);
\* the PC and the status word occupy the two words above them
FrameRegs == <<"R4", "R5", "R6", "R7", "R8", "R9", "R10", "R11",
               "R0", "R1", "R2", "R3", "R12", "LR">>

RegNames == {FrameRegs[k] : k \in 1..14}

FrameWords == 16

VARIABLES
    MS_PRESCALER,   \* millisecond prescaler set by KernelInit
    SysTick_CTRL, SysTick_VAL, SysTick_LOAD,
    sysTickPrio,    \* priority of the SysTick exception
    pendSVPrio,     \* priority of the switch exception
    primask,        \* 1 = interrupts globally disabled
    tcb,            \* tcb[i] = [stackPtr, nextStackPtr]
    currStackPtr,   \* index of the current TCB, NoThread = null
    TCB_STACK,      \* TCB_STACK[i][k]
    MAIN_STACK,     \* the stack main() runs on
    regs, sp, pcReg, psr,   \* processor registers
    retAddr,        \* return address of the API call in progress
    argEntry,       \* entry points passed to KernelCreateThreads
    argQuanta,      \* quantum passed to KernelLaunch
    createRet,      \* value returned by the last KernelCreateThreads, -1 none
    irqAtCall,      \* PRIMASK when the API call in progress was made
    tickPending,    \* SysTick exception pending
    pendSV,         \* switch exception pending
    halted,         \* processor locked up in a fault
    runSeq,         \* history: stack regions of the contexts resumed, in order
    snap            \* history: processor state of each context when suspended

cpu == <<regs, sp, pcReg, psr>>

systick == <<SysTick_CTRL, SysTick_VAL, SysTick_LOAD>>

prios == <<sysTickPrio, pendSVPrio>>

kernel == <<tcb, currStackPtr, TCB_STACK>>

callv == <<retAddr, argEntry, argQuanta, createRet, irqAtCall>>

hist == <<runSeq, snap>>

vars == <<MS_PRESCALER, systick, prios, primask, kernel, MAIN_STACK, cpu,
          callv, tickPending, pendSV, halted, hist>>

----------------------------------------------------------------------------
(* Code positions *)

\* main(): position k is the statement reached after k calls have returned
M(k) == ADDR_main + 2 * k

\* KernelCreateThreads: statement j (0 = __disable_irq ... 12 = return 1)
C(j) == ADDR_KernelCreateThreads + 2 * j

\* KernelLaunch: statement j (0 = CTRL = 0 ... 7 = return)
L(j) == ADDR_KernelLaunch + 2 * j

\* task body i: TaskAddr[i+1] is the increment, TaskAddr[i+1] + 2 the call of
\* ThreadYield

EmptySnap == [valid |-> FALSE, regs |-> [r \in RegNames |-> 0],
              sp |-> NullPtr, pc |-> 0, psr |-> 0]

Init ==
    /\ MS_PRESCALER = 0
    /\ SysTick_CTRL = 0 /\ SysTick_VAL \in 0..MaxCount /\ SysTick_LOAD = 0
    /\ sysTickPrio = 0 /\ pendSVPrio = 0
    /\ primask = 0
    /\ tcb = [i \in Threads |-> [stackPtr |-> NullPtr, nextStackPtr |-> NoThread]]
    /\ currStackPtr = NoThread
    /\ TCB_STACK = [i \in Threads |-> [k \in 0..(MAX_STACK_SIZE - 1) |-> 0]]
    /\ MAIN_STACK = [k \in 0..(MainStackWords - 1) |-> 0]
    /\ regs = [r \in RegNames |-> 0]
    /\ sp = <<MainRegion, MainStackWords>>
    /\ pcReg = M(0)
    /\ psr = THUMB_BIT
    /\ retAddr = NULL
    /\ argEntry = <<NULL, NULL, NULL>>
    /\ argQuanta = 0
    /\ createRet = -1
    /\ irqAtCall = 0
    /\ tickPending = FALSE
    /\ pendSV = FALSE
    /\ halted = FALSE
    /\ runSeq = <<>>
    /\ snap = [i \in Threads |-> EmptySnap]

----------------------------------------------------------------------------
(* Exceptions *)

\* an enabled exception is pending: it is taken before the next instruction
ExceptionReady == primask = 0 /\ (tickPending \/ pendSV)

\* thread-mode code (main or a task) can execute its next statement
CanStep == ~halted /\ ~ExceptionReady

----------------------------------------------------------------------------
(* main() and the calls it makes *)

\* BL f: enter f with the return address M(k+1)
Call(f) ==
    /\ CanStep
    /\ \E k \in 0..(2 + MaxExtraCalls) :
          /\ pcReg = M(k)
          /\ retAddr' = M(k + 1)
    /\ pcReg' = f
    /\ irqAtCall' = primask
    /\ UNCHANGED <<MS_PRESCALER, systick, prios, primask, kernel, MAIN_STACK,
                   regs, sp, psr, createRet, tickPending, pendSV, halted, hist>>

\* main.c: KernelInit();
MainCallKernelInit ==
    /\ pcReg = M(0)
    /\ Call(ADDR_KernelInit)
    /\ UNCHANGED <<argEntry, argQuanta>>

\* main.c: KernelCreateThreads(&task0,&task1,&task2);
MainCallKernelCreateThreads ==
    /\ pcReg = M(1)
    /\ Call(C(0))
    /\ argEntry' = <<task0, task1, task2>>
    /\ UNCHANGED argQuanta

\* main.c: KernelLaunch(QUANTA);
MainCallKernelLaunch ==
    /\ pcReg = M(2)
    /\ Call(L(0))
    /\ argQuanta' = QUANTA
    /\ UNCHANGED argEntry

----------------------------------------------------------------------------
(* KernelInit *)

KernelInit ==
    /\ CanStep
    /\ pcReg = ADDR_KernelInit
    /\ MS_PRESCALER' = SYS_CLOCK \div 1000
    /\ pcReg' = retAddr
    /\ UNCHANGED <<systick, prios, primask, kernel, MAIN_STACK, regs, sp, psr,
                   callv, tickPending, pendSV, halted, hist>>

----------------------------------------------------------------------------
(* KernelStackInit *)

\* faulty variants of StackInitPtr: one word too high; thread 0's stack for
\* every thread
StackInitPtr_high(i) == <<i, MAX_STACK_SIZE - 15>>

StackInitPtr_shared(i) == <<0, MAX_STACK_SIZE - 16>>

\* tcb[i].stackPtr = &TCB_STACK[i][MAX_STACK_SIZE-16]
StackInitPtr(i) == <<i, MAX_STACK_SIZE - 16>>

\* faulty variant of SentinelSlots: the R4 slot is left out
SentinelSlots_short == { MAX_STACK_SIZE - k : k \in 3..15 }

\* the slots KernelStackInit fills with 0xAAAAAAAA: LR, R12, R3-R0, R11-R4
SentinelSlots == { MAX_STACK_SIZE - k : k \in 3..16 }

KernelStackInit_tcb(i, t) == [t EXCEPT ![i].stackPtr = StackInitPtr(i)]

\* faulty variant of KernelStackInit_stack: the PC slot is filled as well
KernelStackInit_stack_pc(i, s) ==
    [s EXCEPT ![i] =
        [k \in DOMAIN @ |->
            IF k = MAX_STACK_SIZE - 1 THEN THUMB_BIT
            ELSE IF k \in SentinelSlots \cup {MAX_STACK_SIZE - 2} THEN SENTINEL
            ELSE @[k]]]

KernelStackInit_stack(i, s) ==
    [s EXCEPT ![i] =
        [k \in DOMAIN @ |->
            IF k = MAX_STACK_SIZE - 1 THEN THUMB_BIT
            ELSE IF k \in SentinelSlots THEN SENTINEL
            ELSE @[k]]]

----------------------------------------------------------------------------
(* KernelCreateThreads, one action per statement *)

CreateFrame ==
    UNCHANGED <<MS_PRESCALER, systick, prios, MAIN_STACK, regs, sp, psr,
                retAddr, argEntry, argQuanta, irqAtCall, tickPending, pendSV,
                halted, hist>>

\* statement j of KernelCreateThreads executes and falls through to j+1
CreateAt(j) == CanStep /\ pcReg = C(j) /\ pcReg' = C(j + 1)

\* faulty variant of Create_disable_irq: the interrupts stay enabled
Create_disable_irq_missing ==
    /\ CreateAt(0)
    /\ primask' = primask
    /\ UNCHANGED <<kernel, createRet>>
    /\ CreateFrame

\* __disable_irq();
Create_disable_irq ==
    /\ CreateAt(0)
    /\ primask' = 1
    /\ UNCHANGED <<kernel, createRet>>
    /\ CreateFrame

\* faulty variant of Create_link: every link skips one thread
Create_link_skip ==
    /\ \E i \in Threads :
          /\ CreateAt(1 + i)
          /\ tcb' = [tcb EXCEPT ![i].nextStackPtr = (i + 2) % NUM_THREADS]
    /\ UNCHANGED <<primask, currStackPtr, TCB_STACK, createRet>>
    /\ CreateFrame

\* faulty variant of Create_link: the last link does not close the list
Create_link_open ==
    /\ \E i \in Threads :
          /\ CreateAt(1 + i)
          /\ tcb' = [tcb EXCEPT ![i].nextStackPtr =
                         IF i = NUM_THREADS - 1 THEN i ELSE i + 1]
    /\ UNCHANGED <<primask, currStackPtr, TCB_STACK, createRet>>
    /\ CreateFrame

\* tcb[i].nextStackPtr = &tcb[(i+1) % 3];  (i = 0, 1, 2 in this order)
Create_link ==
    /\ \E i \in Threads :
          /\ CreateAt(1 + i)
          /\ tcb' = [tcb EXCEPT ![i].nextStackPtr = (i + 1) % NUM_THREADS]
    /\ UNCHANGED <<primask, currStackPtr, TCB_STACK, createRet>>
    /\ CreateFrame

\* KernelStackInit(i);
Create_KernelStackInit ==
    /\ \E i \in Threads :
          /\ CreateAt(4 + 2 * i)
          /\ tcb' = KernelStackInit_tcb(i, tcb)
          /\ TCB_STACK' = KernelStackInit_stack(i, TCB_STACK)
    /\ UNCHANGED <<primask, currStackPtr, createRet>>
    /\ CreateFrame

\* TCB_STACK[i][MAX_STACK_SIZE-2] = (int32_t)(task_i);
Create_setPC ==
    /\ \E i \in Threads :
          /\ CreateAt(5 + 2 * i)
          /\ TCB_STACK' = [TCB_STACK EXCEPT ![i][MAX_STACK_SIZE - 2] =
                              argEntry[i + 1]]
    /\ UNCHANGED <<primask, tcb, currStackPtr, createRet>>
    /\ CreateFrame

\* currStackPtr = &tcb[0];
Create_setCurrent ==
    /\ CreateAt(10)
    /\ currStackPtr' = 0
    /\ UNCHANGED <<primask, tcb, TCB_STACK, createRet>>
    /\ CreateFrame

\* faulty variant of Create_enable_irq: the interrupts stay disabled
Create_enable_irq_missing ==
    /\ CreateAt(11)
    /\ primask' = primask
    /\ UNCHANGED <<kernel, createRet>>
    /\ CreateFrame

\* __enable_irq();
Create_enable_irq ==
    /\ CreateAt(11)
    /\ primask' = 0
    /\ UNCHANGED <<kernel, createRet>>
    /\ CreateFrame

\* return 1;
Create_return ==
    /\ CanStep
    /\ pcReg = C(12)
    /\ createRet' = 1
    /\ pcReg' = retAddr
    /\ UNCHANGED <<MS_PRESCALER, systick, prios, primask, kernel, MAIN_STACK,
                   regs, sp, psr, retAddr, argEntry, argQuanta, irqAtCall,
                   tickPending,
                   pendSV, halted, hist>>

KernelCreateThreads ==
    \/ Create_disable_irq
    \/ Create_link
    \/ Create_KernelStackInit
    \/ Create_setPC
    \/ Create_setCurrent
    \/ Create_enable_irq
    \/ Create_return

----------------------------------------------------------------------------
(* KernelLaunch, one action per statement *)

\* x |= (1U << b)
SetBit(x, b) == IF (x \div (2 ^ b)) % 2 = 1 THEN x ELSE x + 2 ^ b

TestBit(x, b) == (x \div (2 ^ b)) % 2 = 1

\* (QUANTA * MS_PRESCALER) - 1: the parameter q of the declaration
\* KernelLaunch(uint32_t quanta) does not occur in the definition
ReloadValue(q) == (QUANTA * MS_PRESCALER - 1) % RELOAD_MODULUS

LaunchAt(j) == CanStep /\ pcReg = L(j) /\ pcReg' = L(j + 1)

LaunchFrame ==
    UNCHANGED <<MS_PRESCALER, pendSVPrio, primask, kernel, MAIN_STACK, regs,
                sp, psr, callv, tickPending, pendSV, halted, hist>>

\* faulty variant of Launch_resetCTRL: the timer and its interrupt are
\* enabled at once
Launch_resetCTRL_armed ==
    /\ LaunchAt(0)
    /\ SysTick_CTRL' = SetBit(SetBit(SysTick_CTRL, 0), 1)
    /\ UNCHANGED <<SysTick_VAL, SysTick_LOAD, sysTickPrio>>
    /\ LaunchFrame

\* SysTick->CTRL = 0;
Launch_resetCTRL ==
    /\ LaunchAt(0)
    /\ SysTick_CTRL' = 0
    /\ UNCHANGED <<SysTick_VAL, SysTick_LOAD, sysTickPrio>>
    /\ LaunchFrame

\* SysTick->VAL = 0;
Launch_clearVAL ==
    /\ LaunchAt(1)
    /\ SysTick_VAL' = 0
    /\ UNCHANGED <<SysTick_CTRL, SysTick_LOAD, sysTickPrio>>
    /\ LaunchFrame

\* SysTick->LOAD = (QUANTA * MS_PRESCALER) - 1;
Launch_setLOAD ==
    /\ LaunchAt(2)
    /\ SysTick_LOAD' = ReloadValue(argQuanta)
    /\ UNCHANGED <<SysTick_CTRL, SysTick_VAL, sysTickPrio>>
    /\ LaunchFrame

\* faulty variant of Launch_setPriority: the priority is left as it was
Launch_setPriority_skipped ==
    /\ LaunchAt(3)
    /\ sysTickPrio' = sysTickPrio
    /\ UNCHANGED systick
    /\ LaunchFrame

\* NVIC_SetPriority(SysTick_IRQn, 15);
Launch_setPriority ==
    /\ LaunchAt(3)
    /\ sysTickPrio' = SYSTICK_PRIORITY
    /\ UNCHANGED systick
    /\ LaunchFrame

\* SysTick->CTRL |= (1U << 2);  |= (1U << 0);  |= (1U << 1);
Launch_setCTRL ==
    /\ \E j \in 4..6 :
          /\ LaunchAt(j)
          /\ SysTick_CTRL' = SetBit(SysTick_CTRL, <<2, 0, 1>>[j - 3])
    /\ UNCHANGED <<SysTick_VAL, SysTick_LOAD, sysTickPrio>>
    /\ LaunchFrame

\* "TODO: Launch the Scheduler": the function ends and returns to its caller
Launch_return ==
    /\ CanStep
    /\ pcReg = L(7)
    /\ pcReg' = retAddr
    /\ UNCHANGED <<systick, sysTickPrio>>
    /\ LaunchFrame

KernelLaunch ==
    \/ Launch_resetCTRL
    \/ Launch_clearVAL
    \/ Launch_setLOAD
    \/ Launch_setPriority
    \/ Launch_setCTRL
    \/ Launch_return

----------------------------------------------------------------------------
(* The SysTick timer *)

\* the counter is enabled (bit 0) and reaches zero; with TICKINT (bit 1) set
\* this pends the SysTick exception
SysTickExpire ==
    /\ ~halted
    /\ TestBit(SysTick_CTRL, 0)
    /\ TestBit(SysTick_CTRL, 1)
    /\ ~tickPending
    /\ tickPending' = TRUE
    /\ UNCHANGED <<MS_PRESCALER, systick, prios, primask, kernel, MAIN_STACK,
                   cpu, callv, pendSV, halted, hist>>

----------------------------------------------------------------------------
(* Tick handler, switch exception and ThreadYield (specification 4.4-4.6) *)

\* of two pending exceptions the one with the numerically lower priority is
\* taken first; at equal priority the lower exception number (the switch
\* exception, 14, before SysTick, 15)
TickFirst == ~pendSV \/ sysTickPrio < pendSVPrio

SwitchFirst == ~tickPending \/ pendSVPrio <= sysTickPrio

\* faulty variant of SysTick_Handler: the handler itself advances
\* currStackPtr
SysTick_Handler_switching ==
    /\ ~halted
    /\ primask = 0
    /\ tickPending
    /\ TickFirst
    /\ tickPending' = FALSE
    /\ pendSV' = TRUE
    /\ currStackPtr' = tcb[currStackPtr].nextStackPtr
    /\ UNCHANGED <<MS_PRESCALER, systick, prios, primask, tcb, TCB_STACK,
                   MAIN_STACK, cpu, callv, halted, hist>>

\* the tick handler: pend the switch exception, nothing else
SysTick_Handler ==
    /\ ~halted
    /\ primask = 0
    /\ tickPending
    /\ TickFirst
    /\ tickPending' = FALSE
    /\ pendSV' = TRUE
    /\ UNCHANGED <<MS_PRESCALER, systick, prios, primask, kernel, MAIN_STACK,
                   cpu, callv, halted, hist>>

\* the 16-word saved frame at base: R4-R11, then R0-R3, R12, LR, PC, xPSR
StoreFrame(stk, base) ==
    [k \in DOMAIN stk |->
        IF k \in base..(base + FrameWords - 1)
        THEN IF k - base < 14 THEN regs[FrameRegs[k - base + 1]]
             ELSE IF k - base = 14 THEN pcReg
             ELSE psr
        ELSE stk[k]]

\* successor of TCB i in the circular list
Successor(i) == tcb[i].nextStackPtr

\* the switch exception: stack the running context on its own stack, store
\* the stack pointer in the current TCB, advance currStackPtr to its
\* successor, load that TCB's stack pointer and unstack its frame.  It has
\* no defined outcome with currStackPtr, a successor link or a saved stack
\* pointer null; no reachable state takes it so (C8_CreateAtomic).
SwitchException ==
    /\ ~halted
    /\ primask = 0
    /\ pendSV
    /\ SwitchFirst
    /\ LET r    == sp[1]
           base == sp[2] - FrameWords
           T1   == IF r \in Threads
                   THEN [TCB_STACK EXCEPT ![r] = StoreFrame(@, base)]
                   ELSE TCB_STACK
           M1   == IF r = MainRegion THEN StoreFrame(MAIN_STACK, base)
                   ELSE MAIN_STACK
           tcb1 == [tcb EXCEPT ![currStackPtr].stackPtr = <<r, base>>]
           nxt  == Successor(currStackPtr)
           nsp  == tcb1[nxt].stackPtr
           Rd(k) == IF nsp[1] = MainRegion THEN M1[nsp[2] + k]
                    ELSE T1[nsp[1]][nsp[2] + k]
       IN  /\ TCB_STACK' = T1
           /\ MAIN_STACK' = M1
           /\ tcb' = tcb1
           /\ currStackPtr' = nxt
           /\ regs' = [x \in RegNames |->
                         Rd((CHOOSE k \in 1..14 : FrameRegs[k] = x) - 1)]
           /\ pcReg' = Rd(14)
           /\ psr' = Rd(15)
           /\ sp' = <<nsp[1], nsp[2] + FrameWords>>
           /\ runSeq' = IF Len(runSeq) < MaxRun THEN Append(runSeq, nsp[1])
                        ELSE runSeq
           /\ snap' = [snap EXCEPT ![currStackPtr] =
                         [valid |-> TRUE, regs |-> regs, sp |-> sp,
                          pc |-> pcReg, psr |-> psr]]
    /\ pendSV' = FALSE
    /\ UNCHANGED <<MS_PRESCALER, systick, prios, primask, callv, tickPending,
                   halted>>

\* task body, "TaskN_Profiler++" and whatever else the body computes: it
\* leaves a pattern v in every general-purpose register (the link register
\* keeps its value)
TaskWork ==
    /\ CanStep
    /\ \E i \in Threads : pcReg = TaskAddr[i + 1]
    /\ \E v \in 1..MaxVal :
          regs' = [x \in RegNames |-> IF x = "LR" THEN regs[x] ELSE v]
    /\ pcReg' = pcReg + 2
    /\ UNCHANGED <<MS_PRESCALER, systick, prios, primask, kernel, MAIN_STACK,
                   sp, psr, callv, tickPending, pendSV, halted, hist>>

\* task body, "ThreadYield();": set the pending-switch request, then loop
ThreadYield ==
    /\ CanStep
    /\ \E i \in Threads : pcReg = TaskAddr[i + 1] + 2
    /\ pendSV' = TRUE
    /\ pcReg' = pcReg - 2
    /\ UNCHANGED <<MS_PRESCALER, systick, prios, primask, kernel, MAIN_STACK,
                   regs, sp, psr, callv, tickPending, halted, hist>>

\* a frame whose PC slot holds a null entry point was resumed: execution at
\* address 0 ends in a fault, unless an exception preempts it first
HardFault ==
    /\ ~halted
    /\ pcReg = NULL
    /\ halted' = TRUE
    /\ UNCHANGED <<MS_PRESCALER, systick, prios, primask, kernel, MAIN_STACK,
                   cpu, callv, tickPending, pendSV, hist>>

----------------------------------------------------------------------------
(* The program: main() as written *)

Next ==
    \/ MainCallKernelInit
    \/ MainCallKernelCreateThreads
    \/ MainCallKernelLaunch
    \/ KernelInit
    \/ KernelCreateThreads
    \/ KernelLaunch
    \/ SysTickExpire
    \/ SysTick_Handler
    \/ SwitchException
    \/ TaskWork
    \/ ThreadYield

Spec == Init /\ [][Next]_vars

\* main() on a processor that keeps executing, with a timer that keeps
\* counting once KernelLaunch has enabled it and pending exceptions that are
\* taken whenever they are not masked
SpecFair ==
    /\ Spec
    /\ WF_vars(Next)
    /\ WF_vars(SysTickExpire)
    /\ WF_vars(SysTick_Handler)
    /\ WF_vars(SwitchException)

----------------------------------------------------------------------------
(* The kernel API under any caller: main's three calls with any arguments, *)
(* then up to MaxExtraCalls further calls                                  *)

\* the three tasks, or one of the entry points null
EntryArgs == { [k \in 1..NUM_THREADS |-> IF k = n THEN NULL ELSE TaskAddr[k]] :
                 n \in 0..NUM_THREADS }

QuantaArgs == {QUANTA, 2 * QUANTA}

ExtraPos == { M(k) : k \in 3..(2 + MaxExtraCalls) }

ApiCallKernelInit ==
    /\ pcReg \in ExtraPos
    /\ Call(ADDR_KernelInit)
    /\ UNCHANGED <<argEntry, argQuanta>>

ApiCallKernelCreateThreads ==
    /\ pcReg \in {M(1)} \cup ExtraPos
    /\ Call(C(0))
    /\ argEntry' \in EntryArgs
    /\ UNCHANGED argQuanta

ApiCallKernelLaunch ==
    /\ pcReg \in {M(2)} \cup ExtraPos
    /\ Call(L(0))
    /\ argQuanta' \in QuantaArgs
    /\ UNCHANGED argEntry

\* a caller masks interrupts before a further call
ApiDisableIrq ==
    /\ CanStep
    /\ pcReg \in ExtraPos
    /\ primask = 0
    /\ primask' = 1
    /\ UNCHANGED <<MS_PRESCALER, systick, prios, kernel, MAIN_STACK, cpu,
                   callv, tickPending, pendSV, halted, hist>>

NextAPI ==
    \/ MainCallKernelInit
    \/ ApiDisableIrq
    \/ ApiCallKernelInit
    \/ ApiCallKernelCreateThreads
    \/ ApiCallKernelLaunch
    \/ KernelInit
    \/ KernelCreateThreads
    \/ KernelLaunch
    \/ SysTickExpire
    \/ SysTick_Handler
    \/ SwitchException
    \/ TaskWork
    \/ ThreadYield
    \/ HardFault

SpecAPI == Init /\ [][NextAPI]_vars

----------------------------------------------------------------------------
(* Notions the properties use *)

\* thread i is RUNNING: the processor executes on thread i's stack
Running(i) == sp[1] = i

\* KernelLaunch has executed its last statement (TICKINT set) and is over
AfterLaunch == TestBit(SysTick_CTRL, 1) /\ pcReg # L(7)

\* KernelCreateThreads has made its last write (interrupts still disabled),
\* or has re-enabled interrupts and is at its return with no switch so far
AtCreateEnd == pcReg = C(11) \/ (pcReg = C(12) /\ runSeq = <<>>)

\* a call of KernelCreateThreads has returned and no other is in progress
CreateReturned == createRet # -1 /\ pcReg \notin { C(j) : j \in 0..12 }

\* the TCBs the scheduler reaches from currStackPtr over the successor links
Reachable ==
    LET step(S) == (S \cup { tcb[i].nextStackPtr : i \in S }) \ {NoThread}
    IN  step(step(step({currStackPtr} \ {NoThread})))

\* the PC slot of thread i's initial frame
PCSlot(i) == TCB_STACK[i][MAX_STACK_SIZE - 2]

\* an exception handler was entered in this step
TickTaken == tickPending /\ ~tickPending'

SwitchTaken == pendSV /\ ~pendSV'

\* statements of KernelCreateThreads after the first link write and before
\* the assignment of currStackPtr has taken effect
CreateCritical == { C(j) : j \in 2..10 }

----------------------------------------------------------------------------
(* Properties *)

\* C1: after KernelInit, KernelCreateThreads(task0, task1, task2) and
\* KernelLaunch, the contexts entering the RUNNING state are threads
\* 0,1,2,0,1,2,... in this order, whatever mix of ticks and yields caused the
\* switches, and every switch moves currStackPtr to its successor.
C1_RoundRobinFromZero ==
    \A k \in 1..Len(runSeq) : runSeq[k] = (k - 1) % NUM_THREADS

\* C2: once KernelLaunch has been entered, control never reaches the
\* statement after the call, and the context suspended by the first switch
\* is thread 0's.
C2_LaunchNeverReturns ==
    /\ pcReg # M(3)
    /\ (runSeq # <<>> => snap[0].sp[1] = 0)

\* C3: KernelCreateThreads called with a null entry point returns a failure
\* status, and afterwards no TCB the scheduler reaches has a null entry point
\* in its PC slot.
C3_NullEntryRejected ==
    (CreateReturned /\ \E i \in 1..NUM_THREADS : argEntry[i] = NULL)
        => /\ createRet # 0
           /\ \A i \in Reachable : PCSlot(i) # NULL

\* C4: KernelCreateThreads returns 0 when called with three non-null entry
\* points.
C4_SuccessReturnsZero ==
    (CreateReturned /\ \A i \in 1..NUM_THREADS : argEntry[i] # NULL)
        => createRet = 0

C6_ReloadFromArgument ==
    pcReg = L(7) => SysTick_LOAD = argQuanta * (SYS_CLOCK \div 1000) - 1

\* C7: when KernelCreateThreads has made its last write, and at its return
\* as long as no switch has intervened, every thread i has
\* its saved stack pointer at word MAX_STACK_SIZE-16 of its own stack, the
\* entry point passed for it at word MAX_STACK_SIZE-2 and a status word with
\* bit 24 set at word MAX_STACK_SIZE-1.
C7_InitialFrameLayout ==
    AtCreateEnd =>
        \A i \in Threads :
            /\ tcb[i].stackPtr = <<i, MAX_STACK_SIZE - 16>>
            /\ TCB_STACK[i][MAX_STACK_SIZE - 2] = argEntry[i + 1]
            /\ TestBit(TCB_STACK[i][MAX_STACK_SIZE - 1], 24)

C7_Witness ==
    /\ pcReg = C(12)
    /\ AtCreateEnd
    /\ argEntry = <<task0, task1, task2>>
    /\ \A i \in Threads : PCSlot(i) = TaskAddr[i + 1]

\* C8: no tick handler and no switch is entered while KernelCreateThreads
\* is between its first link write and the assignment of currStackPtr; a
\* switch finds currStackPtr set and the successor links closed to a cycle.
C8_CreateAtomic ==
    [][ /\ (TickTaken \/ SwitchTaken) => pcReg \notin CreateCritical
        /\ SwitchTaken =>
              /\ currStackPtr \in Threads
              /\ \A i \in Threads : tcb[i].nextStackPtr = (i + 1) % NUM_THREADS
      ]_vars

\* a tick arrives while KernelCreateThreads is inside that region
C8_Witness == tickPending /\ primask = 1 /\ pcReg \in CreateCritical

\* C9: after launch exactly one thread is RUNNING, and it is the thread
\* currStackPtr references.
C9_CurrentIsRunning ==
    AfterLaunch =>
        /\ currStackPtr \in Threads
        /\ Running(currStackPtr)
        /\ \A i \in Threads \ {currStackPtr} : ~Running(i)

\* C10: a context that is resumed finds every general-purpose register, its
\* stack pointer, its program counter and its status word as they were when
\* it was suspended.
C10_ResumeRestores ==
    [][ SwitchTaken =>
          LET n == currStackPtr'
          IN  snap[n].valid =>
                 /\ regs' = snap[n].regs
                 /\ sp' = snap[n].sp
                 /\ pcReg' = snap[n].pc
                 /\ psr' = snap[n].psr
      ]_vars

\* thread 1 has just been resumed with the pattern its body left in the
\* registers before it was suspended
C10_Witness ==
    /\ Running(1)
    /\ snap[1].valid
    /\ regs = snap[1].regs /\ pcReg = snap[1].pc /\ sp = snap[1].sp
    /\ regs["R4"] # SENTINEL /\ regs["R0"] # SENTINEL
    /\ Len(runSeq) = MaxRun

\* the step of a thread body that executes ThreadYield
YieldTaken ==
    \E i \in Threads : pcReg = TaskAddr[i + 1] + 2 /\ pcReg' = TaskAddr[i + 1]

C12_LinksCycle ==
    createRet # -1 =>
        \A i \in Threads : tcb[i].nextStackPtr = (i + 1) % NUM_THREADS

\* the links after launch and MaxRun switches
C12_Witness ==
    /\ createRet # -1
    /\ TestBit(SysTick_CTRL, 1)
    /\ Len(runSeq) = MaxRun
    /\ \A i \in Threads : Successor(Successor(Successor(i))) = i
    /\ Successor(0) # 0

\* word k of the frame that the saved stack pointer of TCB i designates
SavedWord(i, k) ==
    LET p == tcb[i].stackPtr
    IN  IF p[1] = MainRegion THEN MAIN_STACK[p[2] + k]
        ELSE TCB_STACK[p[1]][p[2] + k]

\* C13: after creation every thread that is not executing has its 16-word
\* saved frame inside its own stack with its saved stack pointer at the
\* base of the frame; a thread that was never suspended has its entry point
\* in the PC slot of that frame; the saved status word has the Thumb bit.
C13_SuspendedFrameInOwnStack ==
    CreateReturned =>
        \A i \in Threads :
            ~Running(i) =>
                /\ tcb[i].stackPtr[1] = i
                /\ tcb[i].stackPtr[2] \in 0..(MAX_STACK_SIZE - FrameWords)
                /\ ~snap[i].valid => SavedWord(i, 14) = TaskAddr[i + 1]
                /\ TestBit(SavedWord(i, 15), 24)

\* a step KernelCreateThreads itself takes, from one statement to the next
CreateStep ==
    /\ ~SwitchTaken
    /\ \E j \in 0..11 : pcReg = C(j) /\ pcReg' = C(j + 1)

\* C14: once KernelLaunch has started the timer, a call of
\* KernelCreateThreads changes no successor link, no saved stack pointer,
\* no thread stack and not currStackPtr, and what it returns is not the
\* success status 0.
C14_CreateAfterLaunchRejected ==
    [][ TestBit(SysTick_CTRL, 1) =>
          /\ CreateStep => UNCHANGED <<tcb, TCB_STACK, currStackPtr>>
          /\ (pcReg = C(12) /\ pcReg' = retAddr) => createRet' # 0
      ]_vars

\* C15: with a timer that keeps ticking, every created thread is RUNNING
\* again and again, whatever the threads do between the ticks.
C15_NoStarvation == \A i \in Threads : []<>Running(i)

C17_SentinelFilled ==
    /\ SENTINEL # 0
    /\ \A i \in Threads :
          pcReg \in { C(j) : j \in (5 + 2 * i)..11 } =>
              \A k \in (MAX_STACK_SIZE - 16)..(MAX_STACK_SIZE - 3) :
                  TCB_STACK[i][k] = SENTINEL

\* KernelStackInit(1) has just refilled a frame that thread 1 had used
C17_Witness ==
    /\ pcReg = C(7)
    /\ snap[1].valid
    /\ snap[1].regs["R4"] # SENTINEL
    /\ TCB_STACK[1][MAX_STACK_SIZE - 16] = SENTINEL

\* the steps of KernelCreateThreads that are KernelStackInit(i) and the
\* write of thread i's entry point
StackInitStep(i) == pcReg = C(4 + 2 * i) /\ pcReg' = C(5 + 2 * i)

SetPCStep(i) == pcReg = C(5 + 2 * i) /\ pcReg' = C(6 + 2 * i)

\* what both steps leave alone: the other threads' TCBs and stacks, every
\* successor link, currStackPtr, the caller's stack, and the words of
\* thread i's stack below its initial frame
OthersKept(i) ==
    /\ \A j \in Threads \ {i} : tcb'[j] = tcb[j] /\ TCB_STACK'[j] = TCB_STACK[j]
    /\ tcb'[i].nextStackPtr = tcb[i].nextStackPtr
    /\ currStackPtr' = currStackPtr
    /\ MAIN_STACK' = MAIN_STACK
    /\ \A k \in 0..(MAX_STACK_SIZE - 17) : TCB_STACK'[i][k] = TCB_STACK[i][k]

\* C18: KernelStackInit(i) changes only tcb[i].stackPtr and words
\* MAX_STACK_SIZE-16 .. MAX_STACK_SIZE-1 of thread i's stack and does not
\* write the PC slot MAX_STACK_SIZE-2; the entry-point write changes only
\* that slot.
C18_InitTouchesOwnFrame ==
    [][ \A i \in Threads :
          /\ StackInitStep(i) =>
                /\ OthersKept(i)
                /\ TCB_STACK'[i][MAX_STACK_SIZE - 2] =
                       TCB_STACK[i][MAX_STACK_SIZE - 2]
          /\ SetPCStep(i) =>
                /\ OthersKept(i)
                /\ tcb' = tcb
                /\ \A k \in (MAX_STACK_SIZE - 16)..(MAX_STACK_SIZE - 1) :
                      k # MAX_STACK_SIZE - 2 =>
                          TCB_STACK'[i][k] = TCB_STACK[i][k]
                /\ TCB_STACK'[i][MAX_STACK_SIZE - 2] = argEntry[i + 1]
      ]_vars

\* KernelStackInit(1) and the entry-point write for thread 1 have run in
\* a later call while thread 2's stack holds the frame of its suspension
C18_Witness ==
    /\ pcReg = C(8)
    /\ PCSlot(1) = argEntry[2]
    /\ snap[2].valid
    /\ TCB_STACK[2][MAX_STACK_SIZE - 16] # SENTINEL
    /\ TCB_STACK[2][MAX_STACK_SIZE - 2] \in {task2, task2 + 2}

\* a tick interrupt can be delivered: one is pending, or the counter runs
\* with its interrupt request enabled
TickDeliverable ==
    tickPending \/ (TestBit(SysTick_CTRL, 0) /\ TestBit(SysTick_CTRL, 1))

\* C19: KernelLaunch stops the timer and clears its counter before it
\* writes anything else and keeps it stopped until the reload value and
\* the tick priority are written; a tick can be delivered only with the
\* reload register and the tick priority configured and currStackPtr set.
C19_SafeArmingOrder ==
    /\ pcReg \in { L(j) : j \in 1..4 } => SysTick_CTRL = 0
    /\ pcReg \in { L(j) : j \in 2..7 } => SysTick_VAL = 0
    /\ TickDeliverable =>
          /\ SysTick_LOAD = ReloadValue(argQuanta)
          /\ SysTick_LOAD # 0
          /\ sysTickPrio = SYSTICK_PRIORITY
          /\ currStackPtr \in Threads

\* the first tick expires as soon as KernelLaunch has enabled the request
C19_Witness ==
    /\ pcReg = L(7)
    /\ tickPending
    /\ runSeq = <<>>
    /\ SysTick_CTRL = 7

\* C20: at its return KernelCreateThreads has the interrupts as its caller
\* had them at the call: disabled if they were disabled, enabled if they
\* were enabled.
C20_IrqStatePreserved == pcReg = C(12) => primask = irqAtCall

\* C20, as the code has it: at its return KernelCreateThreads has the
\* interrupts globally enabled, whether its caller had them enabled or
\* disabled at the call.
C20_ReturnsEnabled == pcReg = C(12) => primask = 0

\* a call made with the interrupts disabled is at its return
C20_Witness == pcReg = C(12) /\ irqAtCall = 1 /\ primask = 0

====
